---- MODULE Spec2Model ----
(***************************************************************************)
(* Dispatch and wrapping core of the unified activation surface            *)
(* (ivy/functional/ivy/experimental/activations.py), its jax backend       *)
(* kernels and the helpers of the jax frontend.                            *)
(*                                                                         *)
(* Numbers are exact rationals a/b; an input element n stands for the      *)
(* value n/Scale.  The results of floating-point primitives that leave the *)
(* rationals are kept symbolic: NaN, +inf, -inf and log(a/b).              *)
(***************************************************************************)
EXTENDS Integers, Sequences, FiniteSets, TLC

VARIABLES
    frames,     \* call stack of the unified surface; the top frame is last
    outData,    \* native storage of the caller's `out` wrapper
    outOrig,    \* contents of `out` when the outermost call started
    trace,      \* stage events of the latest call, in execution order
    fault,      \* the stage in which the environment raises a raw error
    pargs,      \* _batch_promotion: the positional arguments
    pdefault,   \* _batch_promotion: default_dtype
    pret,       \* _batch_promotion: the returned dtype, "unset" before
    cx,         \* conversion layer: the value x
    cnative,    \* conversion layer: to_native(x)
    cback,      \* conversion layer: to_neutral(to_native(x))
    cpc,        \* conversion layer: position of the round trip
    active,     \* backend registry: the pinned backend, "none" when unpinned
    bn,         \* the latest call of batch_norm and its outcome
    fe,         \* the call of a jax frontend adapter in progress
    pr,         \* the call of the body of prelu
    ax          \* the call of _canonicalize_axis

vars == <<frames, outData, outOrig, trace, fault,
          pargs, pdefault, pret, cx, cnative, cback, cpc,
          active, bn, fe, pr, ax>>

callVars == <<frames, outData, outOrig, trace, fault>>
promVars == <<pargs, pdefault, pret>>
convVars == <<cx, cnative, cback, cpc>>
auxVars == <<active, bn, fe, pr, ax>>

None == [kind |-> "None"]

\* the parts of the state a specification does not use stay as they start
CallIdle ==
    /\ frames = <<>>
    /\ outData = None
    /\ outOrig = None
    /\ trace = <<>>
    /\ fault = "none"
PromotionIdle ==
    /\ pargs = <<>>
    /\ pdefault = "float64"
    /\ pret = "unset"
ConversionIdle ==
    /\ cx = None
    /\ cnative = None
    /\ cback = None
    /\ cpc = "idle"
BackendIdle == active = "none" /\ bn = None
FrontendIdle == fe = None
PreluIdle == pr = None
AxisIdle == ax = None

(***************************************************************************)
(* Bounds of the model.                                                    *)
(***************************************************************************)
Scale == 4          \* an element n denotes the number n / Scale
MaxLen == 2         \* longest array
MaxArgs == 3        \* most positional arguments of _batch_promotion
MaxDepth == 2       \* deepest nesting of containers in the round trip

(***************************************************************************)
(* Floating-point elements.                                                *)
(***************************************************************************)
RECURSIVE GCD(_, _)
GCD(a, b) == IF b = 0 THEN a ELSE GCD(b, a % b)

Abs(n) == IF n < 0 THEN -n ELSE n

NaN == [k |-> "nan", a |-> 0, b |-> 0]
PInf == [k |-> "inf", a |-> 1, b |-> 0]
NInf == [k |-> "inf", a |-> -1, b |-> 0]

\* the rational a/b, b # 0, in lowest terms with a positive denominator
Fin(a, b) ==
    LET s == IF b < 0 THEN -1 ELSE 1
        g == GCD(Abs(a), Abs(b))
    IN  [k |-> "fin", a |-> (s * a) \div g, b |-> (s * b) \div g]

\* log(a/b) for a/b > 0, kept symbolic
LogOf(a, b) == [k |-> "log", a |-> Fin(a, b).a, b |-> Fin(a, b).b]

One == Fin(1, 1)
Zero == Fin(0, 1)
Elem(n) == Fin(n, Scale)

IsFin(x) == x.k = "fin"
Less(x, y) == x.a * y.b < y.a * x.b       \* x < y on finite values

\* x > y, x < y as the backend evaluates them: false when an operand is NaN
fgt(x, y) == IsFin(x) /\ IsFin(y) /\ Less(y, x)
flt(x, y) == IsFin(x) /\ IsFin(y) /\ Less(x, y)

\* x - y on finite or NaN operands
fsub(x, y) ==
    IF ~IsFin(x) \/ ~IsFin(y) THEN NaN
    ELSE Fin(x.a * y.b - y.a * x.b, x.b * y.b)

\* x / y on finite or NaN operands, IEEE 754: n/0 is a signed infinity, 0/0 NaN
fdiv(x, y) ==
    IF ~IsFin(x) \/ ~IsFin(y) THEN NaN
    ELSE IF y.a = 0
         THEN IF x.a > 0 THEN PInf ELSE IF x.a < 0 THEN NInf ELSE NaN
         ELSE Fin(x.a * y.b, x.b * y.a)

\* log(x), IEEE 754: log(0) = -inf, log(+inf) = +inf, log of a negative NaN
flog(x) ==
    IF x.k = "nan" THEN NaN
    ELSE IF x.k = "inf" THEN (IF x.a > 0 THEN PInf ELSE NaN)
    ELSE IF x.a = 0 THEN NInf
    ELSE IF x.a < 0 THEN NaN
    ELSE LogOf(x.a, x.b)

\* clip(x, lo, hi) = minimum(maximum(x, lo), hi) on finite operands
fclip(x, lo, hi) ==
    LET m == IF Less(x, lo) THEN lo ELSE x
    IN  IF Less(hi, m) THEN hi ELSE m

(***************************************************************************)
(* Values: scalars, native arrays, neutral arrays and containers.          *)
(***************************************************************************)
NewId == "new"      \* identity of a wrapper allocated during the call
OutId == "out"      \* identity of the caller's `out` wrapper
ArgId == "arg"      \* identity of a wrapper passed as input

Scalar(v) == [kind |-> "Scalar", v |-> v]
Native(dtype, data) == [kind |-> "Native", dtype |-> dtype, data |-> data]
Array(id, nat) == [kind |-> "Array", id |-> id, nat |-> nat]
Container(keys, vals) == [kind |-> "Container", keys |-> keys, vals |-> vals]

IsNative(v) == v.kind = "Native"
IsArray(v) == v.kind = "Array"
IsContainer(v) == v.kind = "Container"

FloatDtypes == {"float16", "bfloat16", "float32", "float64"}
IsFloatDtype(d) == d \in FloatDtypes

(***************************************************************************)
(* jax backend kernels (ivy/functional/backends/jax/experimental).  They   *)
(* take and return native arrays and never touch `out`.                    *)
(***************************************************************************)
\* dtype of a true division or of a where(...) against a float constant
jnp_float_dtype(dtype) == IF IsFloatDtype(dtype) THEN dtype ELSE "float32"

logit_wrong_bounds(x, eps) ==
    LET clamp(e) == IF eps = None
                    THEN IF fgt(e, One) \/ flt(e, Zero) \/ e = One
                         THEN NaN ELSE e
                    ELSE fclip(e, eps.v, fsub(One, eps.v))
        f(e) == flog(fdiv(clamp(e), fsub(One, clamp(e))))
    IN  Native(jnp_float_dtype(x.dtype), [i \in DOMAIN x.data |-> f(x.data[i])])

\* clamps from below only: maximum(x, eps) instead of clip(x, eps, 1 - eps)
logit_clip_lower_only(x, eps) ==
    LET clamp(e) == IF eps = None
                    THEN IF fgt(e, One) \/ flt(e, Zero) THEN NaN ELSE e
                    ELSE IF Less(e, eps.v) THEN eps.v ELSE e
        f(e) == flog(fdiv(clamp(e), fsub(One, clamp(e))))
    IN  Native(jnp_float_dtype(x.dtype), [i \in DOMAIN x.data |-> f(x.data[i])])

logit(x, eps) ==
    LET clamp(e) == IF eps = None
                    THEN IF fgt(e, One) \/ flt(e, Zero) THEN NaN ELSE e
                    ELSE fclip(e, eps.v, fsub(One, eps.v))
        f(e) == flog(fdiv(clamp(e), fsub(One, clamp(e))))
    IN  Native(jnp_float_dtype(x.dtype), [i \in DOMAIN x.data |-> f(x.data[i])])

\* relu instead of relu6: no upper bound
relu6_no_upper_bound(x) ==
    LET f(e) == IF Less(e, Zero) THEN Zero ELSE e
    IN  Native(x.dtype, [i \in DOMAIN x.data |-> f(x.data[i])])

relu6(x) ==
    LET f(e) == fclip(e, Zero, Fin(6, 1))
    IN  Native(x.dtype, [i \in DOMAIN x.data |-> f(x.data[i])])

thresholded_relu(x, threshold) ==
    LET f(e) == IF fgt(e, threshold.v) THEN e ELSE Zero
    IN  Native(x.dtype, [i \in DOMAIN x.data |-> f(x.data[i])])

\* jax.nn.sigmoid is a primitive of the backend library: kept symbolic
sigmoid(x) ==
    LET f(e) == [k |-> "sigmoid", a |-> e.a, b |-> e.b]
    IN  Native(jnp_float_dtype(x.dtype), [i \in DOMAIN x.data |-> f(x.data[i])])

\* current_backend(x).<op>(x, ..., out=out): the kernel ignores `out`
BackendCall(op, x, scalar) ==
    CASE op = "logit" -> logit(x, scalar)
      [] op = "relu6" -> relu6(x)
      [] op = "thresholded_relu" -> thresholded_relu(x, scalar)
      [] op = "sigmoid" -> sigmoid(x)

(***************************************************************************)
(* The decorator stacks of the unified surface, outermost first, as they   *)
(* are written above each operation.                                       *)
(***************************************************************************)
StackA == <<"handle_out_argument", "handle_nestable",
            "to_native_arrays_and_back", "handle_exceptions",
            "handle_array_like_without_promotion">>
StackB == <<"to_native_arrays_and_back", "handle_out_argument",
            "handle_nestable", "handle_exceptions",
            "handle_array_like_without_promotion">>
StackC == <<"to_native_arrays_and_back", "handle_out_argument",
            "handle_nestable", "handle_exceptions",
            "handle_array_like_without_promotion", "handle_array_function">>
StackD == <<"integer_arrays_to_float">> \o StackC

AllOps == {"logit", "prelu", "thresholded_relu", "relu6", "batch_norm",
           "sigmoid", "hard_sigmoid", "selu", "hard_tanh", "log_sigmoid",
           "softplus", "softsign", "silu", "hard_silu", "leaky_relu", "elu",
           "celu", "glu"}

\* relu6 and logit declared without handle_out_argument
Decorators_no_out(op) ==
    CASE op \in {"prelu", "batch_norm", "glu"} -> StackA
      [] op = "logit" -> Tail(StackA)
      [] op = "thresholded_relu" -> StackB
      [] op = "relu6" ->
           SelectSeq(StackC, LAMBDA d : d # "handle_out_argument")
      [] op \in {"softplus", "softsign", "silu", "hard_silu",
                 "leaky_relu", "elu", "celu"} -> StackC
      [] op \in {"sigmoid", "hard_sigmoid", "selu", "hard_tanh",
                 "log_sigmoid"} -> StackD

\* thresholded_relu declared without handle_nestable
Decorators_no_nestable(op) ==
    CASE op \in {"logit", "prelu", "batch_norm", "glu"} -> StackA
      [] op = "thresholded_relu" ->
           SelectSeq(StackB, LAMBDA d : d # "handle_nestable")
      [] op \in {"relu6", "softplus", "softsign", "silu", "hard_silu",
                 "leaky_relu", "elu", "celu"} -> StackC
      [] op \in {"sigmoid", "hard_sigmoid", "selu", "hard_tanh",
                 "log_sigmoid"} -> StackD

Decorators(op) ==
    CASE op \in {"logit", "prelu", "batch_norm", "glu"} -> StackA
      [] op = "thresholded_relu" -> StackB
      [] op \in {"relu6", "softplus", "softsign", "silu", "hard_silu",
                 "leaky_relu", "elu", "celu"} -> StackC
      [] op \in {"sigmoid", "hard_sigmoid", "selu", "hard_tanh",
                 "log_sigmoid"} -> StackD

\* the operations whose kernels are modelled, and so can be run
Ops == {"logit", "thresholded_relu", "relu6", "sigmoid"}

\* position of decorator d in the stack of op, 0 when op does not carry it
RECURSIVE IndexOf(_, _, _)
IndexOf(s, d, i) ==
    IF i > Len(s) THEN 0 ELSE IF s[i] = d THEN i ELSE IndexOf(s, d, i + 1)
Pos(op, d) == IndexOf(Decorators(op), d, 1)

(***************************************************************************)
(* Conversion layer.                                                       *)
(***************************************************************************)
RECURSIVE to_native(_)
to_native(v) ==
    IF IsArray(v) THEN v.nat
    ELSE IF IsContainer(v)
         THEN Container(v.keys, [i \in DOMAIN v.vals |-> to_native(v.vals[i])])
         ELSE v

\* wraps a bare native array but does not descend into containers
to_neutral_shallow(v) == IF IsNative(v) THEN Array(NewId, v) ELSE v

RECURSIVE to_neutral(_)
to_neutral(v) ==
    IF IsNative(v) THEN Array(NewId, v)
    ELSE IF IsContainer(v)
         THEN Container(v.keys, [i \in DOMAIN v.vals |-> to_neutral(v.vals[i])])
         ELSE v

\* structural/value equality: wrappers are equal when they wrap equal values
RECURSIVE SameValue(_, _)
SameValue(v, w) ==
    IF v.kind # w.kind THEN FALSE
    ELSE IF IsArray(v) THEN v.nat = w.nat
    ELSE IF IsContainer(v)
         THEN /\ v.keys = w.keys
              /\ DOMAIN v.vals = DOMAIN w.vals
              /\ \A i \in DOMAIN v.vals : SameValue(v.vals[i], w.vals[i])
         ELSE v = w

(***************************************************************************)
(* Helpers of the jax frontend (non_linear_activations.py).                *)
(***************************************************************************)
Dtypes == {"bool", "int8", "int16", "int32", "int64", "uint8", "uint16",
           "uint32", "uint64", "float16", "bfloat16", "float32", "float64"}

\* an argument of _batch_promotion: an array, given by its dtype, or a
\* Python int or float
PyScalar == "pyscalar"
PromotionArgs == Dtypes \cup {PyScalar}

\* the loop over args: Python scalars are skipped, ivy.dtype(arg) is added
RECURSIVE promote_types(_, _)
promote_types(args, i) ==
    IF i > Len(args) THEN {}
    ELSE IF args[i] = PyScalar THEN promote_types(args, i + 1)
    ELSE {args[i]} \cup promote_types(args, i + 1)

_batch_promotion_first_float(args, default_dtype) ==
    LET floats == SelectSeq(args, LAMBDA a : a \in FloatDtypes)
        types == promote_types(args, 1)
    IN  IF Len(floats) > 0 THEN floats[1]
        ELSE IF "int64" \in types \/ "uint64" \in types THEN "float64"
        ELSE IF "uint32" \in types /\ \E d \in {"int8", "int16", "int32"} :
                                          d \in types
        THEN "float64"
        ELSE default_dtype

_batch_promotion_int64_first(args, default_dtype) ==
    LET types == promote_types(args, 1)
    IN  IF "float64" \in types THEN "float64"
        ELSE IF "int64" \in types \/ "uint64" \in types THEN "float64"
        ELSE IF "float32" \in types THEN "float32"
        ELSE IF "float16" \in types /\ "bfloat16" \in types THEN "float32"
        ELSE IF "float16" \in types THEN "float16"
        ELSE IF "bfloat16" \in types THEN "bfloat16"
        ELSE IF "uint32" \in types /\ \E d \in {"int8", "int16", "int32"} :
                                          d \in types
        THEN "float64"
        ELSE default_dtype

_batch_promotion(args, default_dtype) ==
    LET types == promote_types(args, 1)
    IN  IF "float64" \in types THEN "float64"
        ELSE IF "float32" \in types THEN "float32"
        ELSE IF "float16" \in types /\ "bfloat16" \in types THEN "float32"
        ELSE IF "float16" \in types THEN "float16"
        ELSE IF "bfloat16" \in types THEN "bfloat16"
        ELSE IF "int64" \in types \/ "uint64" \in types THEN "float64"
        ELSE IF "uint32" \in types /\ \E d \in {"int8", "int16", "int32"} :
                                          d \in types
        THEN "float64"
        ELSE default_dtype

(***************************************************************************)
(* A call of a unified operation: one frame per invocation, stepping       *)
(* inwards through the decorators, into the body, and outwards again.      *)
(***************************************************************************)
Taxonomy == {"BackendNotFoundError", "ShapeMismatchError",
             "UnsupportedDtypeError", "BackendExecutionError"}

Faults == {"none", "to_native_arrays_and_back", "handle_nestable",
           "handle_out_argument", "backend"}

FloatElems == {Elem(n) : n \in {-1, 0, 1, Scale, 6 * Scale, 7 * Scale}}
IntElems == {Elem(n) : n \in {0, Scale, 7 * Scale}}

SeqsUpTo(S, n) == UNION {[1..m -> S] : m \in 1..n}

NativeArrays ==
    {Native("float32", d) : d \in SeqsUpTo(FloatElems, MaxLen)}
    \cup {Native("int32", d) : d \in SeqsUpTo(IntElems, MaxLen)}

Leaves == {Array(ArgId, Native("float32", <<e>>)) : e \in FloatElems}

CallInputs ==
    {Array(ArgId, n) : n \in NativeArrays}
    \cup {Container(<<"a", "b">>, <<l1, l2>>) : l1 \in Leaves, l2 \in Leaves}

\* the scalar keyword of each operation: eps, threshold, or none
ScalarArgs(op) ==
    CASE op = "logit" -> {None, Scalar(Zero), Scalar(Elem(1)),
                          Scalar(Elem(Scale - 1))}
      [] op = "thresholded_relu" -> {Scalar(Zero), Scalar(Elem(2))}
      [] OTHER -> {None}

Zeros(n) == Native("float32", [i \in 1..n |-> Zero])

Frame(op, x, scalar, out) ==
    [op |-> op, x |-> x, scalar |-> scalar, out |-> out, arg |-> x,
     d |-> 1, mode |-> "enter", ret |-> None, err |-> "none",
     leaf |-> 0, acc |-> <<>>]

Depth == Len(frames)
Top == frames[Depth]
SetTop(f) == [frames EXCEPT ![Depth] = f]
Stack == Decorators(Top.op)
Running(m) == Depth > 0 /\ Top.mode = m

\* the frame after decorator d let the call through to the next one
Inward(f) ==
    IF f.d = Len(Decorators(f.op))
    THEN [f EXCEPT !.mode = "body"]
    ELSE [f EXCEPT !.d = f.d + 1]

\* the frame after decorator d handed its result or error to the outer one
Outward(f) ==
    IF f.d = 1
    THEN [f EXCEPT !.d = 0, !.mode = "done"]
    ELSE [f EXCEPT !.d = f.d - 1]

\* an error raised by decorator d itself is seen by the decorators outside
Raise(f, e) ==
    IF f.d = 1
    THEN [f EXCEPT !.d = 0, !.mode = "done", !.err = e]
    ELSE [f EXCEPT !.d = f.d - 1, !.mode = "exit", !.err = e]

\* integer_arrays_to_float: integer arrays are cast to the default float
RECURSIVE ints_to_float(_)
ints_to_float(v) ==
    IF IsNative(v)
    THEN IF IsFloatDtype(v.dtype) THEN v ELSE Native("float32", v.data)
    ELSE IF IsArray(v) THEN Array(v.id, ints_to_float(v.nat))
    ELSE IF IsContainer(v)
         THEN Container(v.keys,
                        [i \in DOMAIN v.vals |-> ints_to_float(v.vals[i])])
         ELSE v

\* the result fits `out` when it has the shape of `out` or broadcasts to it
ShapeCompatible(ret, out) ==
    Len(ret.data) = Len(out.data) \/ Len(ret.data) = 1

Broadcast(ret, out) ==
    Native(ret.dtype,
           [i \in DOMAIN out.data |->
               IF Len(ret.data) = 1 THEN ret.data[1] ELSE ret.data[i]])

Init ==
    /\ frames = <<>>
    /\ outData = None
    /\ outOrig = None
    /\ trace = <<>>
    /\ fault = "none"
    /\ pargs = <<>>
    /\ pdefault = "float64"
    /\ pret = "unset"
    /\ cx = None
    /\ cnative = None
    /\ cback = None
    /\ cpc = "idle"
    /\ BackendIdle /\ FrontendIdle /\ PreluIdle /\ AxisIdle

\* the caller invokes ivy.<op>(x, <scalar>, out=out)
Call ==
    /\ frames = <<>>
    /\ \E op \in Ops, x \in CallInputs, n \in 0..MaxLen, ft \in Faults :
       \E scalar \in ScalarArgs(op) :
          /\ IsContainer(x) => n = 0
          /\ frames' = <<Frame(op, x, scalar, n > 0)>>
          /\ outData' = IF n > 0 THEN Zeros(n) ELSE None
          /\ outOrig' = outData'
          /\ fault' = ft
          /\ trace' = <<>>
    /\ UNCHANGED <<promVars, convVars, auxVars>>

\* the call passes decorator Top.d on its way in
Enter ==
    /\ Running("enter")
    /\ LET f == Top
           D == Stack[f.d]
       IN  CASE D = "to_native_arrays_and_back" ->
                  IF fault = D
                  THEN /\ frames' = SetTop(Raise(f, "raw"))
                       /\ trace' = trace
                  ELSE /\ frames' = SetTop(Inward([f EXCEPT
                                                    !.x = to_native(f.x)]))
                       /\ trace' = Append(trace, "to_native")
             [] D = "handle_nestable" /\ IsContainer(f.x) ->
                  IF fault = D
                  THEN /\ frames' = SetTop(Raise(f, "raw"))
                       /\ trace' = trace
                  ELSE /\ frames' = SetTop([f EXCEPT !.mode = "leaves",
                                                     !.leaf = 1])
                       /\ trace' = Append(trace, "nestable")
             [] D = "integer_arrays_to_float" ->
                  /\ frames' = SetTop(Inward([f EXCEPT
                                               !.x = ints_to_float(f.x)]))
                  /\ trace' = trace
             [] OTHER ->
                  /\ frames' = SetTop(Inward(f))
                  /\ trace' = trace
    /\ UNCHANGED <<outData, outOrig, fault, promVars, convVars, auxVars>>

\* handle_nestable re-invokes the whole operation on the next leaf
LeafCall ==
    /\ Running("leaves")
    /\ Top.leaf <= Len(Top.x.vals)
    /\ frames' = Append(frames,
                        Frame(Top.op, Top.x.vals[Top.leaf], Top.scalar, FALSE))
    /\ UNCHANGED <<outData, outOrig, trace, fault, promVars, convVars, auxVars>>

\* a leaf call returns into handle_nestable of the calling frame
LeafReturn ==
    /\ Depth > 1
    /\ Top.mode = "done"
    /\ LET r == Top
           f == frames[Depth - 1]
           g == IF r.err # "none"
                THEN Raise(f, r.err)
                ELSE [f EXCEPT !.leaf = f.leaf + 1,
                               !.acc = Append(f.acc, r.ret)]
       IN  frames' = [SubSeq(frames, 1, Depth - 1) EXCEPT ![Depth - 1] = g]
    /\ UNCHANGED <<outData, outOrig, trace, fault, promVars, convVars, auxVars>>

\* every leaf is done: the results go back under the keys of the argument
Reassemble ==
    /\ Running("leaves")
    /\ Top.leaf > Len(Top.x.vals)
    /\ frames' = SetTop(Outward([Top EXCEPT
                    !.mode = "exit",
                    !.ret = Container(Top.x.keys, Top.acc)]))
    /\ UNCHANGED <<outData, outOrig, trace, fault, promVars, convVars, auxVars>>

\* the body: current_backend(x).<op>(x, ..., out=out); the kernel raises a
\* backend-native error when the environment makes it fail or when it is
\* handed anything but a native array
Body ==
    /\ Running("body")
    /\ LET f == Top
           g == [f EXCEPT !.mode = "exit"]
       IN  IF fault = "backend" \/ ~IsNative(f.x)
           THEN frames' = SetTop([g EXCEPT !.err = "raw"])
           ELSE frames' = SetTop([g EXCEPT
                                   !.ret = BackendCall(f.op, f.x, f.scalar)])
    /\ trace' = Append(trace, "backend")
    /\ UNCHANGED <<outData, outOrig, fault, promVars, convVars, auxVars>>

\* the result or the error passes decorator Top.d on its way out
Exit ==
    /\ Running("exit")
    /\ LET f == Top
           D == Stack[f.d]
       IN  CASE D = "handle_exceptions" /\ f.err # "none" ->
                  /\ frames' = SetTop(Outward([f EXCEPT !.err =
                         IF f.err \in Taxonomy THEN f.err
                         ELSE "BackendExecutionError"]))
                  /\ UNCHANGED <<outData, trace>>
             [] D = "to_native_arrays_and_back" /\ f.err = "none" ->
                  /\ frames' = SetTop(Outward([f EXCEPT
                                                !.ret = to_neutral(f.ret)]))
                  /\ trace' = Append(trace, "to_neutral")
                  /\ UNCHANGED outData
             [] D = "handle_out_argument" /\ f.err = "none" /\ f.out ->
                  IF fault = D
                  THEN /\ frames' = SetTop(Raise(f, "raw"))
                       /\ UNCHANGED <<outData, trace>>
                  ELSE IF ~ShapeCompatible(to_native(f.ret), outData)
                  THEN /\ frames' = SetTop(Raise(f, "ShapeMismatchError"))
                       /\ UNCHANGED <<outData, trace>>
                  ELSE /\ outData' = Broadcast(to_native(f.ret), outData)
                       /\ frames' = SetTop(Outward([f EXCEPT
                                          !.ret = Array(OutId, outData')]))
                       /\ trace' = Append(trace, "writeback")
             [] OTHER ->
                  /\ frames' = SetTop(Outward(f))
                  /\ UNCHANGED <<outData, trace>>
    /\ UNCHANGED <<outOrig, fault, promVars, convVars, auxVars>>

\* the outermost call has returned or raised; the caller goes on
Return ==
    /\ Depth = 1
    /\ Top.mode = "done"
    /\ frames' = <<>>
    /\ trace' = Append(trace, "return")
    /\ outData' = None
    /\ outOrig' = None
    /\ fault' = "none"
    /\ UNCHANGED <<promVars, convVars, auxVars>>

Next == Call \/ Enter \/ LeafCall \/ LeafReturn \/ Reassemble \/ Body
        \/ Exit \/ Return

Spec == Init /\ [][Next]_vars

(***************************************************************************)
(* _batch_promotion applied to every argument list within the bounds.      *)
(***************************************************************************)
InitPromotion ==
    /\ pargs \in SeqsUpTo(PromotionArgs, MaxArgs)
    /\ pdefault \in {"float32", "float64"}
    /\ pret = "unset"
    /\ frames = <<>>
    /\ outData = None
    /\ outOrig = None
    /\ trace = <<>>
    /\ fault = "none"
    /\ cx = None
    /\ cnative = None
    /\ cback = None
    /\ cpc = "idle"
    /\ BackendIdle /\ FrontendIdle /\ PreluIdle /\ AxisIdle

Promote ==
    /\ pret = "unset"
    /\ pret' = _batch_promotion(pargs, pdefault)
    /\ UNCHANGED <<pargs, pdefault, callVars, convVars, auxVars>>

NextPromotion == Promote

SpecPromotion == InitPromotion /\ [][NextPromotion]_vars

(***************************************************************************)
(* The round trip of the conversion layer on every value within the bounds.*)
(***************************************************************************)
ConvLeaves ==
    {Array(ArgId, Native("float32", <<Zero>>)),
     Array(ArgId, Native("int32", <<One, Zero>>)),
     Scalar(One)}

RECURSIVE NeutralValues(_)
NeutralValues(depth) ==
    IF depth = 0 THEN ConvLeaves
    ELSE LET V == NeutralValues(depth - 1)
         IN  ConvLeaves \cup V
             \cup {Container(<<"a">>, <<v>>) : v \in V}
             \cup {Container(<<"b", "a">>, <<v, w>>) : v \in V, w \in V}

InitConversion ==
    /\ cx \in NeutralValues(MaxDepth)
    /\ cnative = None
    /\ cback = None
    /\ cpc = "start"
    /\ frames = <<>>
    /\ outData = None
    /\ outOrig = None
    /\ trace = <<>>
    /\ fault = "none"
    /\ pargs = <<>>
    /\ pdefault = "float64"
    /\ pret = "unset"
    /\ BackendIdle /\ FrontendIdle /\ PreluIdle /\ AxisIdle

ToNative ==
    /\ cpc = "start"
    /\ cnative' = to_native(cx)
    /\ cpc' = "native"
    /\ UNCHANGED <<cx, cback, callVars, promVars, auxVars>>

ToNeutral ==
    /\ cpc = "native"
    /\ cback' = to_neutral(cnative)
    /\ cpc' = "done"
    /\ UNCHANGED <<cx, cnative, callVars, promVars, auxVars>>

NextConversion == ToNative \/ ToNeutral

SpecConversion == InitConversion /\ [][NextConversion]_vars

(***************************************************************************)
(* Backend selection for batch_norm: current_backend(x).batch_norm(...).   *)
(* An array argument is given by the backend its native type belongs to.   *)
(***************************************************************************)
Backends == {"jax", "numpy"}
Absent == "absent"

\* set_backend pins a backend; without a pin the backend is inferred from
\* the native type of the value handed to current_backend
current_backend(value) == IF active # "none" THEN active ELSE value

\* the arguments the jax kernel computes with: in training the mean and the
\* variance are recomputed from x, scale and offset are used when given
batch_norm_operands(c) ==
    {c.x}
    \cup (IF c.training THEN {} ELSE {c.mean, c.variance})
    \cup ({c.scale, c.offset} \ {Absent})

\* jax.numpy takes numpy arrays as operands and converts them; what another
\* backend's kernel does with arrays that are not its own is not fixed
KernelOutcomes(backend, operands) ==
    IF operands \subseteq {backend} THEN {"ok"}
    ELSE IF backend = "jax" /\ operands \subseteq {"jax", "numpy"} THEN {"ok"}
    ELSE {"ok", "raise"}

InitBackend ==
    /\ active = "none"
    /\ bn = None
    /\ CallIdle /\ PromotionIdle /\ ConversionIdle
    /\ FrontendIdle /\ PreluIdle /\ AxisIdle

set_backend ==
    /\ \E b \in Backends : active' = b
    /\ UNCHANGED <<bn, fe, pr, ax, callVars, promVars, convVars>>

unset_backend ==
    /\ active # "none"
    /\ active' = "none"
    /\ UNCHANGED <<bn, fe, pr, ax, callVars, promVars, convVars>>

\* ivy.batch_norm(x, mean, variance, scale=, offset=, training=)
CallBatchNorm ==
    /\ \E x \in Backends, mean \in Backends, variance \in Backends,
          scale \in Backends \cup {Absent}, offset \in Backends \cup {Absent},
          training \in BOOLEAN :
          LET c == [kind |-> "batch_norm", x |-> x, mean |-> mean,
                    variance |-> variance, scale |-> scale,
                    offset |-> offset, training |-> training]
              d == current_backend(x)
          IN  \E o \in KernelOutcomes(d, batch_norm_operands(c)) :
                 bn' = [call |-> c, dispatched |-> d, outcome |-> o,
                        pinned |-> active]
    /\ UNCHANGED <<active, fe, pr, ax, callVars, promVars, convVars>>

NextBackend == set_backend \/ unset_backend \/ CallBatchNorm

SpecBackend == InitBackend /\ [][NextBackend]_vars

(***************************************************************************)
(* The adapters of the jax frontend that convert dtypes.  An array is      *)
(* given by its dtype; a dtype name is tested as the string it is.         *)
(***************************************************************************)
Chars(d) ==
    CASE d = "bool" -> <<"b", "o", "o", "l">>
      [] d = "int8" -> <<"i", "n", "t", "8">>
      [] d = "int16" -> <<"i", "n", "t", "1", "6">>
      [] d = "int32" -> <<"i", "n", "t", "3", "2">>
      [] d = "int64" -> <<"i", "n", "t", "6", "4">>
      [] d = "uint8" -> <<"u", "i", "n", "t", "8">>
      [] d = "uint16" -> <<"u", "i", "n", "t", "1", "6">>
      [] d = "uint32" -> <<"u", "i", "n", "t", "3", "2">>
      [] d = "uint64" -> <<"u", "i", "n", "t", "6", "4">>
      [] d = "float16" -> <<"f", "l", "o", "a", "t", "1", "6">>
      [] d = "bfloat16" -> <<"b", "f", "l", "o", "a", "t", "1", "6">>
      [] d = "float32" -> <<"f", "l", "o", "a", "t", "3", "2">>
      [] d = "float64" -> <<"f", "l", "o", "a", "t", "6", "4">>

\* sub in s, on strings
Contains(s, sub) ==
    \E i \in 1..(Len(s) - Len(sub) + 1) :
        SubSeq(s, i, i + Len(sub) - 1) = sub

\* s[-2:]
LastTwo(s) == SubSeq(s, Len(s) - 1, Len(s))

FloatWord == <<"f", "l", "o", "a", "t">>

\* tests dtype.startswith("float") instead of "float" in dtype
_type_conversion_startswith(dtype) ==
    IF SubSeq(Chars(dtype), 1, 5) # FloatWord
    THEN IF Contains(LastTwo(Chars(dtype)), <<"6", "4">>)
         THEN "float64" ELSE "float32"
    ELSE dtype

\* the dtype of _type_conversion(x) for x of the given dtype
_type_conversion(dtype) ==
    IF ~Contains(Chars(dtype), FloatWord)
    THEN IF Contains(LastTwo(Chars(dtype)), <<"6", "4">>)
         THEN "float64" ELSE "float32"
    ELSE dtype

\* the dtype of _type_conversion_64(x) for x of the given dtype
_type_conversion_64(dtype) ==
    IF Contains(Chars(dtype), FloatWord) THEN dtype ELSE "float64"

Convert(fn, dtype) ==
    IF fn = "_type_conversion" THEN _type_conversion(dtype)
    ELSE _type_conversion_64(dtype)

\* the defaults of the two signatures
alpha_default == Fin(2, 10)             \* ivy.leaky_relu(x, /, *, alpha=0.2)
negative_slope_default == Fin(1, 100)   \* leaky_relu(x, negative_slope=0.01)

Omitted == [k |-> "omitted", a |-> 0, b |-> 0]
Slopes == {Omitted, Fin(1, 10), Fin(2, 10), Fin(-1, 2)}

\* the statements of each adapter, in the order they are executed
Adapter(fn) ==
    CASE fn = "leaky_relu" ->
           <<[do |-> "convert", fn |-> "_type_conversion_64", on |-> "x"],
             [do |-> "unified", op |-> "leaky_relu"]>>
      [] fn = "relu6" ->
           <<[do |-> "unified", op |-> "relu6"],
             [do |-> "convert", fn |-> "_type_conversion_64", on |-> "ret"]>>
      [] fn = "sigmoid" ->
           <<[do |-> "convert", fn |-> "_type_conversion", on |-> "x"],
             [do |-> "unified", op |-> "sigmoid"],
             [do |-> "astype"]>>
      [] fn = "silu" ->
           <<[do |-> "convert", fn |-> "_type_conversion", on |-> "x"],
             [do |-> "unified", op |-> "sigmoid"],
             [do |-> "unified", op |-> "multiply"]>>
      [] fn = "hard_sigmoid" ->
           <<[do |-> "convert", fn |-> "_type_conversion", on |-> "x"],
             [do |-> "unified", op |-> "hard_sigmoid"],
             [do |-> "astype"]>>
      [] fn = "softplus" ->
           <<[do |-> "convert", fn |-> "_type_conversion", on |-> "x"],
             [do |-> "unified", op |-> "softplus"],
             [do |-> "astype"]>>

Adapters == {"leaky_relu", "relu6", "sigmoid", "silu", "hard_sigmoid",
             "softplus"}

\* the dtype a unified operation returns for an input of the given dtype:
\* relu6 and softplus cast back to it, the others compute in floating point
UnifiedDtype(op, dtype) ==
    IF op \in {"relu6", "softplus", "multiply"} THEN dtype
    ELSE jnp_float_dtype(dtype)

InitFrontend ==
    /\ fe = None
    /\ CallIdle /\ PromotionIdle /\ ConversionIdle
    /\ BackendIdle /\ PreluIdle /\ AxisIdle

\* the caller invokes jax.nn.<fn>(x) or leaky_relu(x, negative_slope)
FrontendCall ==
    /\ IF fe = None THEN TRUE ELSE fe.pc = 0
    /\ \E fn \in Adapters, dtype \in Dtypes, slope \in Slopes :
          /\ fn # "leaky_relu" => slope = Omitted
          /\ fe' = [kind |-> "frontend", fn |-> fn, arg |-> dtype,
                    negative_slope |-> IF slope = Omitted
                                       THEN negative_slope_default
                                       ELSE slope,
                    given |-> slope, x |-> dtype, ret |-> "unset",
                    pc |-> 1, events |-> <<>>]
    /\ UNCHANGED <<active, bn, pr, ax, callVars, promVars, convVars>>

\* the adapter executes its next statement
FrontendStep ==
    /\ fe # None
    /\ fe.pc \in DOMAIN Adapter(fe.fn)
    /\ LET st == Adapter(fe.fn)[fe.pc]
           g == [fe EXCEPT !.pc = fe.pc + 1]
       IN  CASE st.do = "convert" /\ st.on = "x" ->
                  fe' = [g EXCEPT
                           !.x = Convert(st.fn, fe.x),
                           !.events = Append(fe.events,
                               [ev |-> "convert", fn |-> st.fn, on |-> "x",
                                from |-> fe.x,
                                to |-> Convert(st.fn, fe.x)])]
             [] st.do = "convert" /\ st.on = "ret" ->
                  fe' = [g EXCEPT
                           !.ret = Convert(st.fn, fe.ret),
                           !.events = Append(fe.events,
                               [ev |-> "convert", fn |-> st.fn, on |-> "ret",
                                from |-> fe.ret,
                                to |-> Convert(st.fn, fe.ret)])]
             [] st.do = "unified" ->
                  fe' = [g EXCEPT
                           !.ret = UnifiedDtype(st.op, fe.x),
                           !.events = Append(fe.events,
                               [ev |-> "unified", op |-> st.op,
                                dtype |-> fe.x,
                                alpha |-> IF st.op = "leaky_relu"
                                          THEN fe.negative_slope
                                          ELSE Omitted])]
             [] st.do = "astype" ->
                  fe' = [g EXCEPT !.ret = fe.x]
    /\ UNCHANGED <<active, bn, pr, ax, callVars, promVars, convVars>>

\* the adapter returns ret
FrontendReturn ==
    /\ fe # None
    /\ fe.pc = Len(Adapter(fe.fn)) + 1
    /\ fe' = [fe EXCEPT !.pc = 0]
    /\ UNCHANGED <<active, bn, pr, ax, callVars, promVars, convVars>>

NextFrontend == FrontendCall \/ FrontendStep \/ FrontendReturn

SpecFrontend == InitFrontend /\ [][NextFrontend]_vars

(***************************************************************************)
(* The body of prelu, on the shapes of x and slope, under the decorator    *)
(* that normalizes exceptions.                                             *)
(***************************************************************************)
MaxDim == 3
MaxRank == 2

ShapesFrom(r) == UNION {[1..n -> 1..MaxDim] : n \in r..MaxRank}

Max(a, b) == IF a >= b THEN a ELSE b

\* dimension i, counted from the right, of shape s; 1 where s has none
DimFromRight(s, i) == IF i <= Len(s) THEN s[Len(s) - i + 1] ELSE 1

\* x * slope and where(x > 0, x, .) broadcast their operands
Broadcastable(s, t) ==
    \A i \in 1..Max(Len(s), Len(t)) :
        \/ DimFromRight(s, i) = DimFromRight(t, i)
        \/ DimFromRight(s, i) = 1
        \/ DimFromRight(t, i) = 1

BroadcastShape(s, t) ==
    LET n == Max(Len(s), Len(t))
    IN  [i \in 1..n |-> Max(DimFromRight(s, n - i + 1),
                            DimFromRight(t, n - i + 1))]

\* an except clause whose expression is an instance, not a class, matches
\* nothing: evaluating the match raises TypeError in place of the error
except_instance(raised) == "TypeError"

\* handle_exceptions: what is not a taxonomy kind becomes
\* BackendExecutionError
normalize(raised) ==
    IF raised \in Taxonomy THEN raised ELSE "BackendExecutionError"

InitPrelu ==
    /\ pr = None
    /\ CallIdle /\ PromotionIdle /\ ConversionIdle
    /\ BackendIdle /\ FrontendIdle /\ AxisIdle

\* ivy.prelu(x, slope)
PreluCall ==
    /\ IF pr = None THEN TRUE ELSE pr.pc \in {"returned", "failed"}
    /\ \E x \in ShapesFrom(1), slope \in ShapesFrom(0) :
          pr' = [kind |-> "prelu", x |-> x, slope |-> slope, pc |-> "try",
                 raised |-> "none", fallback |-> FALSE, ret |-> None]
    /\ UNCHANGED <<active, bn, fe, ax, callVars, promVars, convVars>>

\* try: return ivy.where(x > 0, x, x * slope, out=out)
PreluTry ==
    /\ pr # None
    /\ pr.pc = "try"
    /\ IF Broadcastable(pr.x, pr.slope)
       THEN pr' = [pr EXCEPT !.pc = "returned",
                             !.ret = [kind |-> "shape",
                                      shape |-> BroadcastShape(pr.x,
                                                               pr.slope)]]
       ELSE pr' = [pr EXCEPT !.pc = "except", !.raised = "broadcast"]
    /\ UNCHANGED <<active, bn, fe, ax, callVars, promVars, convVars>>

\* except ivy.utils.exceptions.IvyError(...) as IvyException:
PreluExcept ==
    /\ pr # None
    /\ pr.pc = "except"
    /\ IF except_instance(pr.raised) = "caught"
       THEN LET n == Cardinality({i \in DOMAIN pr.x :
                                     pr.x[i] = pr.slope[1]})
            IN  IF Len(pr.slope) = 1 /\ n = 1
                THEN \* slope.reshape(x.shape) needs as many elements as x
                     IF \A i \in DOMAIN pr.x :
                            pr.x[i] = pr.slope[1] \/ pr.x[i] = 1
                     THEN pr' = [pr EXCEPT !.pc = "returned",
                                           !.fallback = TRUE,
                                           !.ret = [kind |-> "shape",
                                                    shape |-> pr.x]]
                     ELSE pr' = [pr EXCEPT !.pc = "unwinding",
                                           !.fallback = TRUE,
                                           !.raised = "reshape"]
                ELSE pr' = [pr EXCEPT !.pc = "unwinding",
                                      !.raised = "IvyError"]
       ELSE pr' = [pr EXCEPT !.pc = "unwinding",
                             !.raised = except_instance(pr.raised)]
    /\ UNCHANGED <<active, bn, fe, ax, callVars, promVars, convVars>>

\* the error leaves the body through handle_exceptions
PreluNormalize ==
    /\ pr # None
    /\ pr.pc = "unwinding"
    /\ pr' = [pr EXCEPT !.pc = "failed", !.raised = normalize(pr.raised)]
    /\ UNCHANGED <<active, bn, fe, ax, callVars, promVars, convVars>>

NextPrelu == PreluCall \/ PreluTry \/ PreluExcept \/ PreluNormalize

SpecPrelu == InitPrelu /\ [][NextPrelu]_vars

(***************************************************************************)
(* _batch_promotion on argument lists that hold None, as logsumexp passes  *)
(* b=None; the loop is followed argument by argument.                      *)
(***************************************************************************)
NoneArg == "None"
PromotionArgsNone == PromotionArgs \cup {NoneArg}

\* `if args is None: continue` tests the tuple of all arguments, which is
\* never None, so only Python ints and floats are skipped
Skipped(arg) == arg = PyScalar

\* ivy.dtype(arg): the dtype of an array; of None, whatever ivy.dtype
\* makes of it, an error or some dtype
dtype_outcomes(arg) ==
    IF arg = NoneArg THEN {"raise"} \cup Dtypes ELSE {arg}

StartPromotion ==
    [kind |-> "promotion", i |-> 1, queried |-> {}, dtypes |-> <<>>,
     ret |-> "unset"]

InitPromotionNone ==
    /\ pargs \in SeqsUpTo(PromotionArgsNone, MaxArgs)
    /\ pdefault \in {"float32", "float64"}
    /\ pret = StartPromotion
    /\ CallIdle /\ ConversionIdle
    /\ BackendIdle /\ FrontendIdle /\ PreluIdle /\ AxisIdle

\* one pass of the loop body: for arg in args
PromoteArg ==
    /\ pret.ret = "unset"
    /\ pret.i \in DOMAIN pargs
    /\ LET arg == pargs[pret.i]
       IN  IF Skipped(arg)
           THEN pret' = [pret EXCEPT !.i = pret.i + 1]
           ELSE \E d \in dtype_outcomes(arg) :
                   IF d = "raise"
                   THEN pret' = [pret EXCEPT
                                   !.queried = pret.queried \cup {pret.i},
                                   !.ret = "raise"]
                   ELSE pret' = [pret EXCEPT
                                   !.i = pret.i + 1,
                                   !.queried = pret.queried \cup {pret.i},
                                   !.dtypes = Append(pret.dtypes, d)]
    /\ UNCHANGED <<pargs, pdefault, callVars, convVars, auxVars>>

\* after the loop: the chain of tests on promote_types
PromoteReturn ==
    /\ pret.ret = "unset"
    /\ pret.i = Len(pargs) + 1
    /\ pret' = [pret EXCEPT !.ret = _batch_promotion(pret.dtypes, pdefault)]
    /\ UNCHANGED <<pargs, pdefault, callVars, convVars, auxVars>>

NextPromotionNone == PromoteArg \/ PromoteReturn

SpecPromotionNone == InitPromotionNone /\ [][NextPromotionNone]_vars

(***************************************************************************)
(* _canonicalize_axis on every axis and rank within the bounds.            *)
(***************************************************************************)
MaxNdim == 4

Axes == (0 - MaxNdim - 2)..(MaxNdim + 2)

Returned(v) == [kind |-> "return", value |-> v, error |-> "none"]
Raised(e) == [kind |-> "raise", value |-> 0, error |-> e]

\* accepts axis = ndim
_canonicalize_axis_inclusive(axis, ndim) ==
    IF ~(0 - ndim <= axis /\ axis <= ndim) THEN Raised("IvyException")
    ELSE IF axis < 0 THEN Returned(axis + ndim)
    ELSE Returned(axis)

_canonicalize_axis(axis, ndim) ==
    IF ~(0 - ndim <= axis /\ axis < ndim) THEN Raised("IvyException")
    ELSE IF axis < 0 THEN Returned(axis + ndim)
    ELSE Returned(axis)

InitAxis ==
    /\ ax = None
    /\ CallIdle /\ PromotionIdle /\ ConversionIdle
    /\ BackendIdle /\ FrontendIdle /\ PreluIdle

\* a caller passes an axis and the rank of its array
AxisCall ==
    /\ IF ax = None THEN TRUE ELSE ax.pc = "done"
    /\ \E axis \in Axes, ndim \in 0..MaxNdim :
          ax' = [kind |-> "axis", axis |-> axis, ndim |-> ndim,
                 pc |-> "called", ret |-> None]
    /\ UNCHANGED <<active, bn, fe, pr, callVars, promVars, convVars>>

AxisReturn ==
    /\ ax # None
    /\ ax.pc = "called"
    /\ ax' = [ax EXCEPT !.pc = "done",
                        !.ret = _canonicalize_axis(ax.axis, ax.ndim)]
    /\ UNCHANGED <<active, bn, fe, pr, callVars, promVars, convVars>>

NextAxis == AxisCall \/ AxisReturn

SpecAxis == InitAxis /\ [][NextAxis]_vars

(***************************************************************************)
(* _reduction_dims on every rank and every axis argument within the        *)
(* bounds: None, one integer, or a tuple of integers.                      *)
(***************************************************************************)
MaxAxes == 2

AxisNone == [kind |-> "none"]
AxisInt(v) == [kind |-> "int", v |-> v]
AxisTuple(t) == [kind |-> "tuple", t |-> t]

AxisArgs ==
    {AxisNone} \cup {AxisInt(v) : v \in Axes}
    \cup {AxisTuple(t) : t \in UNION {[1..n -> Axes] : n \in 0..MaxAxes}}

\* tuple(range(ndims))
RangeTuple(ndims) == [i \in 1..ndims |-> i - 1]

\* the set of the entries of a tuple
SetOf(t) == {t[i] : i \in DOMAIN t}

\* never fails
check_equal_passes(x1, x2) == "ok"

\* ivy.utils.assertions.check_equal(x1, x2, message=...)
check_equal(x1, x2) == IF x1 = x2 THEN "ok" ELSE "IvyException"

InitReduction ==
    /\ \E ndims \in 0..MaxNdim, axis \in AxisArgs :
          ax = [kind |-> "reduction", ndims |-> ndims, arg |-> axis,
                pc |-> "start", axis |-> <<>>, canon_axis |-> <<>>,
                ret |-> None]
    /\ CallIdle /\ PromotionIdle /\ ConversionIdle
    /\ BackendIdle /\ FrontendIdle /\ PreluIdle

\* axis is None: both results are (0, ..., ndims-1); an axis that is not a
\* tuple or list becomes (axis,)
ReductionEnter ==
    /\ ax.pc = "start"
    /\ ax' = IF ax.arg.kind = "none"
             THEN [ax EXCEPT !.pc = "done",
                             !.ret = Returned(<<RangeTuple(ax.ndims),
                                                RangeTuple(ax.ndims)>>)]
             ELSE IF ax.arg.kind = "int"
             THEN [ax EXCEPT !.pc = "canon", !.axis = <<ax.arg.v>>]
             ELSE [ax EXCEPT !.pc = "canon", !.axis = ax.arg.t]
    /\ UNCHANGED <<active, bn, fe, pr, callVars, promVars, convVars>>

\* one entry of tuple(_canonicalize_axis(ax, ndims) for ax in axis)
ReductionCanon ==
    /\ ax.pc = "canon"
    /\ Len(ax.canon_axis) < Len(ax.axis)
    /\ LET r == _canonicalize_axis(ax.axis[Len(ax.canon_axis) + 1],
                                   ax.ndims)
       IN  ax' = IF r.kind = "raise"
                 THEN [ax EXCEPT !.pc = "done", !.ret = r]
                 ELSE [ax EXCEPT !.canon_axis = Append(ax.canon_axis,
                                                       r.value)]
    /\ UNCHANGED <<active, bn, fe, pr, callVars, promVars, convVars>>

\* the duplicate check, then the two tuples
ReductionReturn ==
    /\ ax.pc = "canon"
    /\ Len(ax.canon_axis) = Len(ax.axis)
    /\ LET canon_axis == ax.canon_axis
           checked == check_equal(Len(canon_axis),
                                  Cardinality(SetOf(canon_axis)))
           canon_pos_axis == SelectSeq(canon_axis, LAMBDA x : x \in Int)
       IN  ax' = IF checked # "ok"
                 THEN [ax EXCEPT !.pc = "done", !.ret = Raised(checked)]
                 ELSE IF Len(canon_pos_axis) # Len(canon_axis)
                 THEN [ax EXCEPT !.pc = "done",
                                 !.ret = Returned(<<canon_pos_axis,
                                                    canon_axis>>)]
                 ELSE [ax EXCEPT !.pc = "done",
                                 !.ret = Returned(<<canon_axis,
                                                    canon_axis>>)]
    /\ UNCHANGED <<active, bn, fe, pr, callVars, promVars, convVars>>

NextReduction == ReductionEnter \/ ReductionCanon \/ ReductionReturn

SpecReduction == InitReduction /\ [][NextReduction]_vars

(***************************************************************************)
(* Properties.                                                             *)
(***************************************************************************)
Done == Depth = 1 /\ Top.mode = "done"

FourBehaviours == {"handle_out_argument", "handle_nestable",
                   "to_native_arrays_and_back", "handle_exceptions"}
FourOrder(op) == SelectSeq(Decorators(op), LAMBDA d : d \in FourBehaviours)

\* the operation applied to one array alone: the native result
Applied(op, x, scalar) ==
    BackendCall(op,
                to_native(IF Pos(op, "integer_arrays_to_float") > 0
                          THEN ints_to_float(x) ELSE x),
                scalar)

\* C1: any two operations that carry output-argument writeback, nestable
\* dispatch, native conversion and exception normalization nest these four
\* behaviours in the same order.
C1_SameNestingOrder ==
    Depth > 0 =>
        \A o \in AllOps :
            (Len(FourOrder(o)) = 4 /\ Len(FourOrder(Top.op)) = 4)
                => FourOrder(o) = FourOrder(Top.op)

\* C2: in every call nestable dispatch happens before the arguments are
\* converted to native arrays, and the result is wrapped into a neutral array
\* before it is written to `out`.
C2_StagesInDocumentedOrder ==
    \A i, j \in DOMAIN trace :
        i < j => /\ ~(trace[i] = "to_native" /\ trace[j] = "nestable")
                 /\ ~(trace[i] = "writeback" /\ trace[j] = "to_neutral")

\* C3: an error raised in any stage of a call reaches the caller as one of
\* the four taxonomy kinds, never as a raw backend-native exception.
C3_OnlyTaxonomyKinds ==
    (Done /\ Top.err # "none") => Top.err \in Taxonomy

C5_OutShapeMismatch ==
    (/\ Depth > 0
     /\ frames[1].out
     /\ ~ShapeCompatible(Applied(frames[1].op, frames[1].arg,
                                 frames[1].scalar), outOrig))
    => /\ outData = outOrig
       /\ (Done /\ fault = "none") => Top.err = "ShapeMismatchError"

C5_Witness ==
    /\ Done
    /\ Top.out
    /\ Top.err = "ShapeMismatchError"
    /\ Len(outOrig.data) = 1
    /\ Len(Top.arg.nat.data) = 2

\* C6: a call on a container returns a container with the same keys in the
\* same order, whose value at every key is the operation applied to that
\* leaf alone with the scalar arguments unchanged.
C6_NestableLeafwise ==
    (Done /\ IsContainer(Top.arg) /\ fault = "none")
    => /\ Top.err = "none"
       /\ IsContainer(Top.ret)
       /\ Top.ret.keys = Top.arg.keys
       /\ DOMAIN Top.ret.vals = DOMAIN Top.arg.vals
       /\ \A i \in DOMAIN Top.arg.vals :
             Top.ret.vals[i] =
                 to_neutral(Applied(Top.op, Top.arg.vals[i], Top.scalar))

C6_Witness ==
    /\ Done
    /\ IsContainer(Top.arg)
    /\ Top.op = "thresholded_relu"
    /\ Top.scalar = Scalar(Elem(2))
    /\ Top.err = "none"
    /\ Top.ret.keys = <<"a", "b">>
    /\ Top.ret.vals[1].nat.data = <<Zero>>
    /\ Top.ret.vals[2].nat.data = <<One>>

Permuted(args) ==
    {[i \in DOMAIN args |-> args[f[i]]] : f \in Permutations(DOMAIN args)}

\* C7: the result of _batch_promotion does not depend on the order of its
\* arguments; in particular promoting (d1, d2) equals promoting (d2, d1).
C7_PromotionCommutative ==
    pret # "unset" =>
        \A q \in Permuted(pargs) : _batch_promotion(q, pdefault) = pret

C7_Witness ==
    /\ pret = "float16"
    /\ pargs = <<"int64", "float16">>

HasType(d) == \E i \in DOMAIN pargs : pargs[i] = d
HasFloat == \E i \in DOMAIN pargs : pargs[i] \in FloatDtypes

C9_RoundTrip ==
    cpc = "done" => SameValue(cback, cx)

C9_Witness ==
    /\ cpc = "done"
    /\ IsContainer(cx)
    /\ cx.keys = <<"b", "a">>
    /\ IsContainer(cx.vals[1])
    /\ IsArray(cx.vals[2])
    /\ cnative # cx
    /\ cback.vals[2].nat = cx.vals[2].nat

\* log(x / (1 - x)) where it is defined, and what IEEE 754 gives elsewhere
LogitNoEps(e) ==
    IF Less(e, Zero) \/ Less(One, e) THEN NaN
    ELSE IF e = One THEN PInf
    ELSE IF e = Zero THEN NInf
    ELSE LogOf(e.a, e.b - e.a)

\* C10: logit with eps=None returns, element by element, NaN for x < 0 or
\* x > 1, +infinity for x = 1, -infinity for x = 0 and log(x / (1 - x)) for
\* 0 < x < 1.
C10_LogitNoEps ==
    (/\ Done
     /\ Top.op = "logit"
     /\ Top.scalar = None
     /\ IsArray(Top.arg)
     /\ ~Top.out
     /\ fault = "none")
    => /\ Top.err = "none"
       /\ IsArray(Top.ret)
       /\ DOMAIN Top.ret.nat.data = DOMAIN Top.arg.nat.data
       /\ \A i \in DOMAIN Top.arg.nat.data :
             Top.ret.nat.data[i] = LogitNoEps(Top.arg.nat.data[i])

C10_Witness ==
    /\ Done
    /\ Top.op = "logit"
    /\ Top.scalar = None
    /\ Top.err = "none"
    /\ IsArray(Top.arg)
    /\ Top.arg.nat.data = <<One, Elem(1)>>
    /\ Top.ret.nat.data = <<PInf, LogOf(1, Scale - 1)>>

Max2(x, y) == IF Less(x, y) THEN y ELSE x
Min2(x, y) == IF Less(y, x) THEN y ELSE x

\* c = min(max(x, eps), 1 - eps)
Clamped(e, eps) == Min2(Max2(e, eps), Fin(eps.b - eps.a, eps.b))

\* C11: logit with eps set returns log(c / (1 - c)) with
\* c = min(max(x, eps), 1 - eps) for every element x, so an input below eps
\* gives the result of eps and an input above 1 - eps the result of 1 - eps.
C11_LogitClamped ==
    (/\ Done
     /\ Top.op = "logit"
     /\ Top.scalar # None
     /\ IsArray(Top.arg)
     /\ ~Top.out
     /\ fault = "none")
    => /\ Top.err = "none"
       /\ IsArray(Top.ret)
       /\ DOMAIN Top.ret.nat.data = DOMAIN Top.arg.nat.data
       /\ \A i \in DOMAIN Top.arg.nat.data :
             LET e == Top.arg.nat.data[i]
                 eps == Top.scalar.v
                 r == Top.ret.nat.data[i]
                 at(v) == logit(Native("float32", <<v>>), Top.scalar).data[1]
             IN  /\ r = LogitNoEps(Clamped(e, eps))
                 /\ Less(e, eps) => r = at(eps)
                 /\ Less(fsub(One, eps), e) => r = at(fsub(One, eps))

C11_Witness ==
    /\ Done
    /\ Top.op = "logit"
    /\ Top.scalar = Scalar(Elem(1))
    /\ Top.err = "none"
    /\ IsArray(Top.arg)
    /\ Top.arg.nat.data = <<Elem(-1), Elem(7 * Scale)>>
    /\ Top.ret.nat.data = <<LogOf(1, Scale - 1), LogOf(Scale - 1, 1)>>

Six == Fin(6, 1)

\* C12: relu6 gives, for every element v, 0 when v <= 0, v when 0 <= v <= 6
\* and 6 when v >= 6, in an array of the dtype of the input.
C12_Relu6Clips ==
    (/\ Done
     /\ Top.op = "relu6"
     /\ IsArray(Top.arg)
     /\ ~Top.out
     /\ fault = "none")
    => /\ Top.err = "none"
       /\ IsArray(Top.ret)
       /\ Top.ret.nat.dtype = Top.arg.nat.dtype
       /\ DOMAIN Top.ret.nat.data = DOMAIN Top.arg.nat.data
       /\ \A i \in DOMAIN Top.arg.nat.data :
             LET v == Top.arg.nat.data[i]
                 r == Top.ret.nat.data[i]
             IN  /\ ~Less(Zero, v) => r = Zero
                 /\ (~Less(v, Zero) /\ ~Less(Six, v)) => r = v
                 /\ ~Less(v, Six) => r = Six

C12_Witness ==
    /\ Done
    /\ Top.op = "relu6"
    /\ Top.err = "none"
    /\ IsArray(Top.arg)
    /\ Top.arg.nat = Native("int32", <<Elem(7 * Scale), Zero>>)
    /\ Top.ret.nat = Native("int32", <<Six, Zero>>)

\* C13: for sigmoid and for logit alike, an input array of integer dtype is
\* a floating array by the time the backend computation is called.
C13_IntegerInputsPromoted ==
    (/\ Running("body")
     /\ Top.op \in {"sigmoid", "logit"}
     /\ IsNative(Top.x))
    => IsFloatDtype(Top.x.dtype)

\* the backends of the array arguments passed in the latest batch_norm call
PassedArrays ==
    {bn.call.x, bn.call.mean, bn.call.variance, bn.call.scale,
     bn.call.offset} \ {Absent}

\* C14: whatever backend switches came before, a call whose array arguments
\* all belong to the backend in use does not raise, and a call whose array
\* arguments mix the native types of two backends raises instead of being
\* dispatched to the backend of its first argument.
C14_MixedBackendsRaise ==
    bn # None =>
        /\ (PassedArrays = {bn.call.x} /\ bn.pinned \in {"none", bn.call.x})
              => bn.outcome = "ok"
        /\ Cardinality(PassedArrays) > 1 => bn.outcome = "raise"

FrontendEvents == IF fe = None THEN <<>> ELSE fe.events

\* C15: the jax frontend leaky_relu called without negative_slope invokes
\* the unified leaky_relu with alpha = 0.01, not the unified default 0.2,
\* and called with negative_slope = s invokes it with alpha = s.
C15_LeakyReluSlope ==
    \A i \in DOMAIN FrontendEvents :
        LET e == FrontendEvents[i]
        IN  (e.ev = "unified" /\ e.op = "leaky_relu")
            => /\ fe.given = Omitted => e.alpha = Fin(1, 100)
               /\ fe.given # Omitted => e.alpha = fe.given

C15_Witness ==
    /\ fe # None
    /\ fe.fn = "leaky_relu"
    /\ fe.given = Omitted
    /\ fe.pc = 0
    /\ Len(fe.events) = 2
    /\ fe.events[2].alpha = Fin(1, 100)
    /\ fe.events[2].alpha # Fin(2, 10)

\* C16: every adapter that applies _type_conversion or _type_conversion_64
\* applies it to its input before it calls the unified operation, which
\* receives the converted array; none converts only the result of the call.
C16_ConvertBeforeDelegating ==
    \A j \in DOMAIN FrontendEvents :
        FrontendEvents[j].ev = "unified"
        => \E i \in 1..(j - 1) :
              /\ FrontendEvents[i].ev = "convert"
              /\ FrontendEvents[i].on = "x"
              /\ FrontendEvents[j].dtype = FrontendEvents[i].to

\* C18: _type_conversion keeps a floating dtype, turns int64 and uint64
\* into float64 and every other non-floating dtype into float32; applied to
\* its own result it changes nothing.
C18_TypeConversion ==
    \A i \in DOMAIN FrontendEvents :
        LET e == FrontendEvents[i]
        IN  (e.ev = "convert" /\ e.fn = "_type_conversion")
            => /\ e.from \in {"float16", "bfloat16", "float32", "float64"}
                     => e.to = e.from
               /\ e.from \in {"int64", "uint64"} => e.to = "float64"
               /\ e.from \in {"bool", "int8", "int16", "int32", "uint8",
                              "uint16", "uint32"} => e.to = "float32"
               /\ _type_conversion(e.to) = e.to

C18_Witness ==
    /\ fe # None
    /\ fe.fn = "softplus"
    /\ fe.arg = "uint64"
    /\ Len(fe.events) > 0
    /\ fe.events[1].fn = "_type_conversion"
    /\ fe.events[1].to = "float64"

\* slope is one-dimensional with a length equal to exactly one dimension
\* of x
FallbackApplies(x, slope) ==
    /\ Len(slope) = 1
    /\ Cardinality({i \in DOMAIN x : x[i] = slope[1]}) = 1

\* C17: prelu returns when slope broadcasts against x; otherwise, when
\* slope is one-dimensional with the length of exactly one dimension of x,
\* it returns through the reshape fallback; otherwise it fails with
\* ShapeMismatchError.
C17_PreluFallback ==
    (pr # None /\ pr.pc \in {"returned", "failed"})
    => IF Broadcastable(pr.x, pr.slope) THEN pr.pc = "returned"
       ELSE IF FallbackApplies(pr.x, pr.slope)
       THEN pr.pc = "returned" /\ pr.ret.shape = pr.x
       ELSE pr.pc = "failed" /\ pr.raised = "ShapeMismatchError"

\* C19: _batch_promotion never queries the dtype of an argument that is
\* None or a Python int or float, such an argument adds nothing to the
\* promoted dtypes and cannot make the call fail, and a call whose
\* arguments are all None or Python scalars returns default_dtype.
C19_NoneAndScalarsSkipped ==
    pret.ret # "unset"
    => /\ \A i \in DOMAIN pargs :
             pargs[i] \in {NoneArg, PyScalar} => i \notin pret.queried
       /\ pret.ret # "raise"
       /\ pret.ret = _batch_promotion(
                         SelectSeq(pargs, LAMBDA a : a \in Dtypes), pdefault)
       /\ (\A i \in DOMAIN pargs : pargs[i] \in {NoneArg, PyScalar})
             => pret.ret = pdefault

AxisDone == ax # None /\ ax.pc = "done"

\* C20: for -ndim <= axis < ndim, _canonicalize_axis returns axis when
\* axis >= 0 and axis + ndim when axis < 0, a value in [0, ndim); for every
\* other axis, and for every axis when ndim = 0, it raises IvyException and
\* returns nothing.
C20_CanonicalAxis ==
    AxisDone
    => IF 0 - ax.ndim <= ax.axis /\ ax.axis < ax.ndim
       THEN /\ ax.ret.kind = "return"
            /\ ax.ret.value = IF ax.axis >= 0 THEN ax.axis
                              ELSE ax.axis + ax.ndim
            /\ ax.ret.value \in 0..(ax.ndim - 1)
       ELSE /\ ax.ret.kind = "raise"
            /\ ax.ret.error = "IvyException"

C20_Witness ==
    /\ AxisDone
    /\ ax.axis = -1
    /\ ax.ndim = 3
    /\ ax.ret = Returned(2)

ReductionDone == ax # None /\ ax.kind = "reduction" /\ ax.pc = "done"

\* the axis argument as a collection
Collection(arg) ==
    IF arg.kind = "int" THEN <<arg.v>>
    ELSE IF arg.kind = "tuple" THEN arg.t ELSE <<>>

InRange(a, ndims) == 0 - ndims <= a /\ a < ndims

\* the dimension an in-range entry denotes
Dimension(a, ndims) == IF a < 0 THEN a + ndims ELSE a

\* two entries denote the same dimension
SameDimensionTwice(c, ndims) ==
    \E i, j \in DOMAIN c :
        /\ i # j
        /\ InRange(c[i], ndims) /\ InRange(c[j], ndims)
        /\ Dimension(c[i], ndims) = Dimension(c[j], ndims)

\* two equal tuples of pairwise distinct axes in [0, ndims), in the order
\* of the collection
ReturnsCanonical(c, ndims) ==
    /\ ax.ret.kind = "return"
    /\ ax.ret.value[1] = ax.ret.value[2]
    /\ Len(ax.ret.value[1]) = Len(c)
    /\ \A i \in DOMAIN c :
          /\ ax.ret.value[1][i] \in 0..(ndims - 1)
          /\ ax.ret.value[1][i] = Dimension(c[i], ndims)
    /\ \A i, j \in DOMAIN c :
          i # j => ax.ret.value[1][i] # ax.ret.value[1][j]

ReturnsRange(ndims) ==
    /\ ax.ret.kind = "return"
    /\ ax.ret.value[1] = RangeTuple(ndims)
    /\ ax.ret.value[2] = RangeTuple(ndims)

\* C21 as stated: _reduction_dims rejects every axis collection in which
\* two entries denote the same dimension, and otherwise returns two equal
\* tuples of pairwise distinct axes in [0, ndim) in the order given; with
\* axis=None both tuples are (0, ..., ndim-1); a single integer is a
\* one-element collection.
C21_ReductionDims ==
    ReductionDone
    => IF ax.arg.kind = "none" THEN ReturnsRange(ax.ndims)
       ELSE IF SameDimensionTwice(Collection(ax.arg), ax.ndims)
       THEN ax.ret.kind = "raise"
       ELSE ReturnsCanonical(Collection(ax.arg), ax.ndims)

\* C21 amended: a collection with an entry outside [-ndim, ndim) is
\* rejected with IvyException as well; a collection whose entries are all
\* in range is rejected when two of them denote the same dimension and
\* otherwise gives two equal tuples of pairwise distinct axes in [0, ndim)
\* in the order given; with axis=None both tuples are (0, ..., ndim-1); a
\* single integer is a one-element collection.
C21_ReductionDimsInRange ==
    ReductionDone
    => LET c == Collection(ax.arg)
       IN  IF ax.arg.kind = "none" THEN ReturnsRange(ax.ndims)
           ELSE IF \E i \in DOMAIN c : ~InRange(c[i], ax.ndims)
           THEN ax.ret.kind = "raise" /\ ax.ret.error = "IvyException"
           ELSE IF SameDimensionTwice(c, ax.ndims)
           THEN ax.ret.kind = "raise"
           ELSE ReturnsCanonical(c, ax.ndims)

C21_Witness ==
    /\ ReductionDone
    /\ ax.ndims = 3
    /\ ax.arg = AxisTuple(<<-1, 0>>)
    /\ ax.ret.kind = "return"
    /\ ax.ret.value = <<(<<2, 0>>), (<<2, 0>>)>>

C21_WitnessDuplicate ==
    /\ ReductionDone
    /\ ax.ndims = 3
    /\ ax.arg = AxisTuple(<<-1, 2>>)
    /\ ax.ret.kind = "raise"

====
